---- MODULE Spec2Model ----
(***************************************************************************)
(* Model of druid-shell's Wayland backend: window construction, the        *)
(* configure responders, the render pipeline, WindowHandle, IdleHandle and *)
(* the per-window timer heap.                                              *)
(*                                                                         *)
(* Coordinates are fixed-point: one logical unit is Unit model units, so   *)
(* that Rect::expand (rounding outwards to whole units) is not the         *)
(* identity.  A Rect is <<x0, y0, x1, y1>>, a Size is <<width, height>> in *)
(* whole logical units.                                                    *)
(***************************************************************************)
EXTENDS Integers, Sequences, FiniteSets, TLC

\* ---------------------------------------------------------------- bounds
Unit == 2
MaxWindows == 2
MaxBuilds == 3
MaxFrames == 2
MaxSerial == 2
MaxCoord == 2
MaxRects == 2
MaxTimers == 3
MaxDeadline == 2
MaxIdle == 3
MaxTakes == 2

\* ------------------------------------------------------ input alphabets
DefaultSize == <<500, 400>>
SizeInputs == {<<500, 400>>, <<800, 600>>}
\* the title of WindowBuilder::new, and the titles given to set_title
DefaultTitle == ""
Titles == {DefaultTitle, "Event Logger"}
ConfigureDims == SizeInputs \cup {<<0, 0>>, <<-1, 600>>, <<800, 0>>}
Serials == 1..MaxSerial
\* what can go wrong inside one render pass, chosen by the environment
Failures == {"none", "alloc", "finish"}
RectInputs == {<<1, 1, 3, 2>>, <<2, 0, 4, 4>>}
\* every rectangle of non-negative width and height up to MaxCoord
SmallRects ==
    {r \in (0..MaxCoord) \X (0..MaxCoord) \X (0..MaxCoord) \X (0..MaxCoord) :
        r[1] <= r[3] /\ r[2] <= r[4]}

VARIABLES
    window_counter,  \* State::window_counter
    windows,         \* State::windows, a Vec of Window records
    last,            \* what the step just taken did (observation only)
    next_token,      \* the process-wide TimerToken counter
    pc,              \* per thread: position inside an IdleHandle call
    todo,            \* per thread: the items it still has to enqueue
    idle_lock,       \* the thread holding the idle queue's Mutex, or "free"
    event_loop,      \* Application::inner_run: how far the dispatch loop is
    startup,         \* the environment Application::new met and its result
    command,         \* a Command and what is and get answered about it
    single_use,      \* a SingleUse: its Mutex<Option<T>>
    takers,          \* per thread: position inside SingleUse::take, results
    event_handler,   \* the EventHandler of event_filter: focused, cursor
    seat             \* what the wl_seat responder of assign_filter created

vars ==
    <<window_counter, windows, last, next_token, pc, todo, idle_lock,
      event_loop, startup, command, single_use, takers, event_handler, seat>>

threads == <<pc, todo, idle_lock>>

\* the parts of the program that the windows and the idle queue do not touch
input == <<event_handler, seat>>

aside == <<event_loop, startup, command, single_use, takers, input>>

\* ------------------------------------------------------------- geometry
to_rect(size) == <<0, 0, size[1] * Unit, size[2] * Unit>>

FloorU(x) == x - (x % Unit)
CeilU(x) == FloorU(x + Unit - 1)

\* kurbo Rect::expand: every edge rounded away from the centre to a whole
\* logical unit
expand(r) ==
    LET x0 == IF r[1] < r[3] THEN FloorU(r[1]) ELSE CeilU(r[1])
        x1 == IF r[1] < r[3] THEN CeilU(r[3]) ELSE FloorU(r[3])
        y0 == IF r[2] < r[4] THEN FloorU(r[2]) ELSE CeilU(r[2])
        y1 == IF r[2] < r[4] THEN CeilU(r[4]) ELSE FloorU(r[4])
    IN  <<x0, y0, x1, y1>>

\* Region::add_rect: the region accumulates rectangles
add_rect(region, rect) == region \cup {rect}


\* --------------------------------------------------------------- Window
\* what one step did to the handler and to the protocol objects: the result
\* of its outermost render(), the number of render() calls and of those that
\* returned Err, the handler callbacks run, the backing-store allocations,
\* the buffer attaches, the serial acknowledged, the borrows refused, the
\* errors logged and the panics; `painted` is the invalid region that was
\* handed to paint, `order` the sequence of the render pipeline's calls and
\* `mouse` the mouse events handed to handlers, each with the window's id
NoEffect ==
    [render |-> "none", renders |-> 0, render_errs |-> 0, prepares |-> 0,
     paints |-> 0, allocs |-> 0, attaches |-> 0, connects |-> 0, sizes |-> 0,
     pointers |-> 0, acked |-> 0, acks |-> 0, unacked |-> 0, conflicts |-> 0,
     logs |-> 0, panics |-> 0, painted |-> {}, order |-> <<>>, mouse |-> <<>>]

\* Window as WindowBuilder::build constructs it.  `initial_size` is the
\* `size` captured by the xdg_surface configure closure; `surface` is the
\* size of cairo_surface (0x0 from ImageSurface::create); `buffer` says
\* whether buffer_handle is Some; `frames` counts the frame callbacks that
\* are registered and have not fired; `connects` and `initial_sizes` count
\* the handler calls made by the xdg_surface configure responder;
\* `notified` is the size last passed to the handler's size callback, 0x0
\* as long as there was none; `title` and `app_id` are what build() sent
\* with set_title and set_app_id.
\* `handler_borrowed` and `state_borrowed` are the RefCell borrows held at
\* the current point of a step, `app_borrowed` says whether the
\* application's State is borrowed there, and `eff` is what the step has
\* done so far; between steps nothing is borrowed and `eff` is NoEffect.
\* `strong` are the holders of an Rc<Window>: the Vec it is pushed to and
\* the two responder closures, each of which is given `window.clone()`.
NewWindow(id, size) ==
    [id |-> id,
     configured |-> FALSE,
     size |-> size,
     initial_size |-> size,
     invalid |-> {},
     surface |-> <<0, 0>>,
     buffer |-> FALSE,
     frames |-> 0,
     connects |-> 0,
     initial_sizes |-> 0,
     notified |-> <<0, 0>>,
     timer_queue |-> <<>>,
     idle_queue |-> <<>>,
     title |-> "Wayplay",
     app_id |-> "wayplay",
     handler_borrowed |-> FALSE,
     state_borrowed |-> FALSE,
     app_borrowed |-> FALSE,
     strong |-> {"State::windows", "xdg_surface", "xdg_toplevel"},
     eff |-> NoEffect]

\* one more of the counted events
Did(win, what) == [win EXCEPT !.eff[what] = @ + 1]

\* one more call of the render pipeline
Traced(win, what) == [win EXCEPT !.eff.order = Append(@, what)]

\* borrow! / borrow_mut! returned Err
Conflict(win) == Did(win, "conflicts")

\* what the handler does inside its callbacks during one step: nothing, or
\* one call of a WindowHandle method on its own window from inside the
\* callback `during`
NoAct == [during |-> "none", op |-> "none"]

\* connect, size, prepare_paint and paint are called by the window;
\* "pointer" stands for mouse_move, mouse_down and mouse_up, called by
\* Application::with_window_handler
Callbacks == {"connect", "size", "prepare_paint", "paint", "pointer"}

HandlerOps == {"show", "request_anim_frame", "invalidate", "invalidate_rect"}

\* what the handler may do in a step that runs the callbacks `cbs`
ActsIn(cbs) == {NoAct} \cup [during : cbs, op : HandlerOps]

\* the step is over: the effects are handed out
Settle(win) == [win EXCEPT !.eff = NoEffect]

\* the rectangle the handler passes to invalidate_rect
HandlerRect == <<1, 1, 3, 2>>

CounterOf(cb) ==
    CASE cb = "connect" -> "connects"
      [] cb = "size" -> "sizes"
      [] cb = "prepare_paint" -> "prepares"
      [] cb = "paint" -> "paints"
      [] cb = "pointer" -> "pointers"

RECURSIVE render(_, _, _)

\* Window::request_anim_frame: one more frame callback is registered
request_anim_frame(win) == [win EXCEPT !.frames = @ + 1]

\* Window::add_invalid_rect adding the rectangle as given
add_invalid_rect_raw(win, rect) ==
    IF win.state_borrowed
    THEN Conflict(win)
    ELSE [win EXCEPT !.invalid = add_rect(@, rect)]

\* Window::add_invalid_rect: borrow_mut!(self.state)? fails while render
\* holds the state for paint
add_invalid_rect(win, rect) ==
    IF win.state_borrowed
    THEN Conflict(win)
    ELSE [win EXCEPT !.invalid = add_rect(@, expand(rect))]

\* log::error! / eprintln! of an error
Log(win) == Did(win, "logs")

\* Window::invalidate_rect repainting at once instead of asking for a frame
invalidate_rect_now(win, rect) ==
    render(add_invalid_rect(win, rect), "none", NoAct)

\* Window::invalidate_rect: the error of add_invalid_rect is logged
invalidate_rect(win, rect) ==
    LET added == add_invalid_rect(win, rect)
    IN  request_anim_frame(IF added.eff.conflicts > win.eff.conflicts
                           THEN Log(added)
                           ELSE added)

\* Window::invalidate: the state is only borrowed shared, which succeeds
\* also during paint
invalidate(win) == invalidate_rect(win, to_rect(win.size))

\* `if let Err(err) = render() { log }` around a render() that has returned
Logged(win) == IF win.eff.render = "err" THEN Log(win) ELSE win

\* Window::show: the error of render is printed
show(win, fail, act) == Logged(render(win, fail, act))

\* the first statement of WindowBuilder::build, app.state.borrow_mut(),
\* reached while the State is borrowed: RefCell::borrow_mut panics
build_borrowed(win) == IF win.app_borrowed THEN Did(win, "panics") ELSE win

\* a WindowHandle method called by the handler on its own window (the Weak
\* resolves, the window being alive while its handler runs), or
\* WindowBuilder::build called by the handler of a pointer event
handler_call(win, op) ==
    CASE op = "show" -> show(win, "none", NoAct)
      [] op = "request_anim_frame" -> request_anim_frame(win)
      [] op = "invalidate" -> invalidate(win)
      [] op = "invalidate_rect" -> invalidate_rect(win, HandlerRect)
      [] op = "build" -> build_borrowed(win)

\* one handler callback, entered with the handler mutably borrowed
callback(win, cb, act) ==
    LET inside == [Did(win, CounterOf(cb)) EXCEPT !.handler_borrowed = TRUE]
        after == IF act.during = cb
                 THEN handler_call(inside, act.op)
                 ELSE inside
    IN  [after EXCEPT !.handler_borrowed = FALSE]

\* Window::update_surface starting from the full bounds alone
update_surface_fresh(win, fail) ==
    LET marked == [win EXCEPT !.invalid = {to_rect(win.size)}]
    IN  IF fail = "alloc"
        THEN [win |-> marked, ok |-> FALSE]
        ELSE [win |-> [Did(marked, "allocs") EXCEPT !.surface = win.size,
                                                    !.buffer = TRUE],
              ok |-> TRUE]

\* Window::update_surface: the full bounds are added to the invalid region
\* first; then the backing store, the pool and the buffer are created anew
update_surface(win, fail) ==
    LET marked == [win EXCEPT !.invalid = add_rect(@, to_rect(win.size))]
    IN  IF fail = "alloc"
        THEN [win |-> marked, ok |-> FALSE]
        ELSE [win |-> [Did(marked, "allocs") EXCEPT !.surface = win.size,
                                                    !.buffer = TRUE],
              ok |-> TRUE]

\* Window::update_buffer committing before it attaches
update_buffer_commit_first(win) ==
    Traced(Traced(Traced(Did(win, "attaches"), "commit"), "attach"),
           "damage_buffer")

\* Window::update_buffer: attach, damage_buffer, commit
update_buffer(win) ==
    Traced(Traced(Traced(Did(win, "attaches"), "attach"), "damage_buffer"),
           "commit")

\* render borrows the state and hands state.invalid to paint
Hold(win) ==
    [win EXCEPT !.state_borrowed = TRUE, !.eff.painted = win.invalid]

\* piet_ctx.finish(), after which the borrow of the state ends
Finish(win) == Traced([win EXCEPT !.state_borrowed = FALSE], "finish")

\* render() returns
Returns(win, result) ==
    IF result = "err"
    THEN [Did(win, "render_errs") EXCEPT !.eff.render = "err"]
    ELSE [win EXCEPT !.eff.render = "ok"]

\* the body of Window::render after the check of `configured`
render_configured(win, fail, act) ==
    IF win.handler_borrowed
    THEN Returns(Conflict(win), "err")
    ELSE LET prepared == callback(Traced(win, "prepare_paint"),
                                  "prepare_paint", act)
             us == update_surface(prepared, fail)
         IN  IF ~us.ok
             THEN Returns(us.win, "err")
             ELSE LET held == Traced(Hold(us.win), "paint")
                      painted == callback(held, "paint", act)
                      released == Finish(painted)
                  IN  IF fail = "finish"
                      THEN Returns(released, "err")
                      ELSE Returns(update_buffer(released), "ok")

\* Window::render without the early return for an unconfigured window
render_unguarded(win, fail, act) ==
    render_configured(Did(win, "renders"), fail, act)

\* Window::render
render(win, fail, act) ==
    IF ~win.configured
    THEN Returns(Did(win, "renders"), "ok")
    ELSE render_configured(Did(win, "renders"), fail, act)

\* xdg_surface.ack_configure(serial); `unacked` is the number of connect,
\* size and render calls the step had made when the request was issued
ack_configure(win, serial) ==
    [win EXCEPT !.eff.acked = serial,
                !.eff.acks = @ + 1,
                !.eff.unacked = win.eff.connects + win.eff.sizes
                                + win.eff.renders]

\* the xdg_surface configure responder acknowledging at its end
xdg_surface_configure_ack_last(win, serial, fail, act) ==
    IF ~win.configured
    THEN LET connected ==
                callback([win EXCEPT !.configured = TRUE,
                                     !.connects = @ + 1],
                         "connect", act)
             told ==
                callback([connected EXCEPT !.initial_sizes = @ + 1,
                                           !.notified = win.initial_size],
                         "size", act)
         IN  ack_configure(Logged(render(told, fail, act)), serial)
    ELSE ack_configure(win, serial)

\* the xdg_surface configure responder reading `configured` with a load
\* where the code swaps
xdg_surface_configure_load(win, serial, fail, act) ==
    LET acked == ack_configure(win, serial)
    IN  IF ~acked.configured
        THEN LET connected ==
                    callback([acked EXCEPT !.connects = @ + 1],
                             "connect", act)
                 told ==
                    callback([connected EXCEPT
                                 !.initial_sizes = @ + 1,
                                 !.notified = win.initial_size],
                             "size", act)
             IN  Logged(render(told, fail, act))
        ELSE acked

\* the xdg_surface configure responder registered by build(): ack_configure,
\* then, if `configured` was false before the swap, connect, size with the
\* size given to the builder, and render, whose error is logged
xdg_surface_configure(win, serial, fail, act) ==
    LET acked == ack_configure(win, serial)
    IN  IF ~acked.configured
        THEN LET connected ==
                    callback([acked EXCEPT !.configured = TRUE,
                                           !.connects = @ + 1],
                             "connect", act)
                 told ==
                    callback([connected EXCEPT
                                 !.initial_sizes = @ + 1,
                                 !.notified = win.initial_size],
                             "size", act)
             IN  Logged(render(told, fail, act))
        ELSE acked

\* the xdg_toplevel configure responder taking one positive dimension for
\* a suggestion
xdg_toplevel_configure_either(win, width, height, fail, act) ==
    IF width > 0 \/ height > 0
    THEN render(callback([win EXCEPT !.size = <<width, height>>,
                                     !.notified = <<width, height>>],
                         "size", act),
                fail, act)
    ELSE win

\* the xdg_toplevel configure responder registered by build(), for
\* Configure: with positive dimensions the size is stored, the handler told
\* and the window rendered, the result of render dropped
xdg_toplevel_configure(win, width, height, fail, act) ==
    IF width > 0 /\ height > 0
    THEN render(callback([win EXCEPT !.size = <<width, height>>,
                                     !.notified = <<width, height>>],
                         "size", act),
                fail, act)
    ELSE win

\* a frame callback that stays registered after it has fired
frame_done_repeating(win, fail, act) == Logged(render(win, fail, act))

\* the closure Window::request_anim_frame assigns to the frame callback, for
\* Done: the callback is spent, the window rendered and the error logged
frame_done(win, fail, act) ==
    Logged(render([win EXCEPT !.frames = @ - 1], fail, act))

\* ------------------------------------------------------------ the timers
\* TimerToken::INVALID
INVALID == 0

\* Timer::new: a timer with a token fresh from the process-wide counter
Timer_new(deadline, token) == [deadline |-> deadline, token |-> token]

\* Ord for Timer, reversed on the deadline ("earliest deadline first"):
\* a <= b in that order
Timer_le(a, b) == a.deadline >= b.deadline

\* BinaryHeap::sift_up on a 1-indexed vector: the element at pos moves
\* towards the root while it is greater than its parent
RECURSIVE sift_up(_, _)
sift_up(data, pos) ==
    IF pos <= 1 THEN data
    ELSE LET parent == pos \div 2
         IN  IF Timer_le(data[pos], data[parent]) THEN data
             ELSE sift_up([data EXCEPT ![pos] = data[parent],
                                       ![parent] = data[pos]], parent)

\* BinaryHeap::push
heap_push(data, item) == sift_up(Append(data, item), Len(data) + 1)

\* BinaryHeap::peek: the greatest element, i.e. the timer that is due first
heap_peek(data) == data[1]

\* -------------------------------------------------------- WindowHandle
\* a WindowHandle is [id, window]: `window` is the position in
\* State::windows the Weak points to, 0 for a Weak that does not resolve
DefaultHandle == [id |-> 0, window |-> 0]

WindowHandle_new(id, window) == [id |-> id, window |-> window]

\* Weak::upgrade
upgrade(h) == h.window # 0

\* a return value: () is Res("unit", 0), a TimerToken Res("token", n),
\* Option None / Some, Result Ok / Err
Res(tag, val) == [tag |-> tag, val |-> val]

unit == Res("unit", 0)

\* the outcome of a call: the windows after it, its return value and what
\* it did
Outcome(ws, res, eff) == [windows |-> ws, res |-> res, eff |-> eff]

\* the outcome of a call that left the window as `w`
Done(ws, h, w, res) ==
    Outcome([ws EXCEPT ![h.window] = Settle(w)], res, w.eff)

\* WindowHandle::show, through Window::show
WindowHandle_show(ws, h, fail, act) ==
    IF upgrade(h)
    THEN Done(ws, h, show(ws[h.window], fail, act), unit)
    ELSE Outcome(ws, unit, NoEffect)

\* WindowHandle::close, resizable, show_titlebar, bring_to_front_and_focus,
\* set_title and set_menu: the Window methods behind them do nothing
WindowHandle_inert(ws, h) == Outcome(ws, unit, NoEffect)

\* WindowHandle::request_anim_frame
WindowHandle_request_anim_frame(ws, h) ==
    IF upgrade(h)
    THEN Done(ws, h, request_anim_frame(ws[h.window]), unit)
    ELSE Outcome(ws, unit, NoEffect)

\* WindowHandle::invalidate
WindowHandle_invalidate(ws, h) ==
    IF upgrade(h)
    THEN Done(ws, h, invalidate(ws[h.window]), unit)
    ELSE Outcome(ws, unit, NoEffect)

\* WindowHandle::invalidate_rect
WindowHandle_invalidate_rect(ws, h, rect) ==
    IF upgrade(h)
    THEN Done(ws, h, invalidate_rect(ws[h.window], rect), unit)
    ELSE Outcome(ws, unit, NoEffect)

\* WindowHandle::request_timer pushing onto a plain vector
WindowHandle_request_timer_unsorted(ws, h, deadline, token) ==
    IF upgrade(h)
    THEN Outcome([ws EXCEPT ![h.window].timer_queue =
                               Append(@, Timer_new(deadline, token))],
                 Res("token", token), NoEffect)
    ELSE Outcome(ws, Res("token", INVALID), NoEffect)

\* WindowHandle::request_timer; `token` is the value of the token counter
WindowHandle_request_timer(ws, h, deadline, token) ==
    IF upgrade(h)
    THEN Outcome([ws EXCEPT ![h.window].timer_queue =
                               heap_push(@, Timer_new(deadline, token))],
                 Res("token", token), NoEffect)
    ELSE Outcome(ws, Res("token", INVALID), NoEffect)

\* WindowHandle::get_idle_handle: an IdleHandle on the window's queue
WindowHandle_get_idle_handle(ws, h) ==
    IF upgrade(h)
    THEN Outcome(ws, Res("Some", h.window), NoEffect)
    ELSE Outcome(ws, Res("None", 0), NoEffect)

\* WindowHandle::get_scale reporting the vanished window as an error
WindowHandle_get_scale_strict(ws, h) ==
    IF upgrade(h)
    THEN Outcome(ws, Res("Ok", 1), NoEffect)
    ELSE Outcome(ws, Res("Err", 0), NoEffect)

\* WindowHandle::get_scale
WindowHandle_get_scale(ws, h) == Outcome(ws, Res("Ok", 1), NoEffect)

\* ------------------------------------------------------- WindowBuilder
\* what WindowBuilder::build asks of the server and of the protocol
\* objects, in the order of its statements: everything up to set_app_id
\* comes before `self.handler.ok_or_else(..)?`
build_requests(has_handler) ==
    <<"create_surface", "get_xdg_surface", "get_toplevel",
      "xdg_wm_base.quick_assign", "set_title", "set_app_id">>
    \o (IF has_handler
        THEN <<"xdg_surface.quick_assign", "xdg_toplevel.quick_assign",
               "commit">>
        ELSE <<>>)

\* WindowBuilder::build looking at the handler only after the window has
\* been pushed
build_push_first(ws, counter, size, has_handler) ==
    [windows |-> Append(ws, NewWindow(counter, size)),
     counter |-> counter + 1,
     res |-> IF has_handler THEN Res("Ok", counter) ELSE Res("Err", 0),
     handle |-> IF has_handler
                THEN WindowHandle_new(counter, Len(ws) + 1)
                ELSE DefaultHandle,
     requests |-> build_requests(has_handler)]

\* WindowBuilder::build without the increment of window_counter
build_counter_kept(ws, counter, size, has_handler) ==
    IF has_handler
    THEN [windows |-> Append(ws, NewWindow(counter, size)),
          counter |-> counter,
          res |-> Res("Ok", counter),
          handle |-> WindowHandle_new(counter, Len(ws) + 1),
          requests |-> build_requests(has_handler)]
    ELSE [windows |-> ws,
          counter |-> counter,
          res |-> Res("Err", 0),
          handle |-> DefaultHandle,
          requests |-> build_requests(has_handler)]

\* WindowBuilder::build: the id is taken and the counter incremented before
\* the handler is looked at
build(ws, counter, size, has_handler) ==
    IF has_handler
    THEN [windows |-> Append(ws, NewWindow(counter, size)),
          counter |-> counter + 1,
          res |-> Res("Ok", counter),
          handle |-> WindowHandle_new(counter, Len(ws) + 1),
          requests |-> build_requests(has_handler)]
    ELSE [windows |-> ws,
          counter |-> counter + 1,
          res |-> Res("Err", 0),
          handle |-> DefaultHandle,
          requests |-> build_requests(has_handler)]

\* ---------------------------------------------------------- Application
\* the globals Globals::new instantiates, in its order, and the version it
\* asks of each
Required ==
    <<[interface |-> "wl_shm", version |-> 1],
      [interface |-> "wl_compositor", version |-> 4],
      [interface |-> "wl_seat", version |-> 1],
      [interface |-> "xdg_wm_base", version |-> 1]>>

Interfaces == {Required[k].interface : k \in 1..Len(Required)}

\* the versions a server advertises a global with; 0 is a global that it
\* does not advertise
Versions == {0, 1, 4}

\* what Application::new can meet: whether connect_to_env and the first
\* sync_roundtrip succeed, and the registry the server advertises
Environments ==
    [connect : BOOLEAN, roundtrip : BOOLEAN,
     advertised : [Interfaces -> Versions]]

\* GlobalManager::instantiate_exact: Missing, VersionTooLow, or the proxy
instantiate_exact(manager, interface, version) ==
    IF manager[interface] = 0
    THEN Res("Err", "Missing")
    ELSE IF manager[interface] < version
         THEN Res("Err", "VersionTooLow")
         ELSE Res("Ok", interface)

RECURSIVE instantiate_from(_, _, _)
\* the `?` chain of Globals::new from the k-th global on; `bound` are the
\* proxies obtained so far
instantiate_from(manager, k, bound) ==
    IF k > Len(Required)
    THEN Res("Ok", bound)
    ELSE LET r == instantiate_exact(manager, Required[k].interface,
                                    Required[k].version)
         IN  IF r.tag = "Err"
             THEN Res("Err", Required[k].interface)
             ELSE instantiate_from(manager, k + 1, bound \cup {r.val})

\* Globals::new making do without a seat
Globals_new_seatless(manager) ==
    LET r == instantiate_from([manager EXCEPT !["wl_seat"] = 1], 1, {})
    IN  IF r.tag = "Ok" /\ manager["wl_seat"] = 0
        THEN Res("Ok", r.val \ {"wl_seat"})
        ELSE r

\* Globals::new
Globals_new(manager) == instantiate_from(manager, 1, {})

\* State::default
State_default == [quitting |-> FALSE, windows |-> <<>>, window_counter |-> 0]

\* Application::new: the Application it returns has its globals, a fresh
\* State and the input filter assigned to the seat
Application_new(env) ==
    IF ~env.connect
    THEN Res("Err", "Could not connect to Wayland server")
    ELSE IF ~env.roundtrip
         THEN Res("Err", "First sync roundtrip failed")
         ELSE LET globals == Globals_new(env.advertised)
              IN  IF globals.tag = "Err"
                  THEN Res("Err", "Failed to acquire all globals")
                  ELSE Res("Ok", [globals |-> globals.val,
                                  state |-> State_default,
                                  filter_assigned |-> TRUE])

\* the globals Globals::new gets before its first `?` returns, in order
Instantiated(manager) ==
    LET failing == {k \in 1..Len(Required) :
                       instantiate_exact(manager, Required[k].interface,
                                         Required[k].version).tag = "Err"}
        n == IF failing = {}
             THEN Len(Required)
             ELSE (CHOOSE k \in failing : \A j \in failing : k <= j) - 1
    IN  [k \in 1..n |-> Required[k].interface]

\* what Application::new does up to the first sync_roundtrip
Handshake ==
    <<"connect_to_env", "create_event_queue", "GlobalManager::new",
      "sync_roundtrip">>

\* Application::new binding the globals before the roundtrip
Application_new_calls_unsynced(env) ==
    IF ~env.connect
    THEN <<"connect_to_env">>
    ELSE SubSeq(Handshake, 1, 3) \o Instantiated(env.advertised)
         \o <<"sync_roundtrip">>
         \o (IF env.roundtrip /\ Globals_new(env.advertised).tag = "Ok"
             THEN <<"assign_filter">> ELSE <<>>)

\* the calls Application::new makes, in order, up to the `?` that returns
\* or to its end; a global is named when instantiate_exact has bound it
Application_new_calls(env) ==
    IF ~env.connect
    THEN <<"connect_to_env">>
    ELSE IF ~env.roundtrip
         THEN Handshake
         ELSE Handshake \o Instantiated(env.advertised)
              \o (IF Globals_new(env.advertised).tag = "Ok"
                  THEN <<"assign_filter">> ELSE <<>>)

\* a server that has everything
GoodEnvironment ==
    [connect |-> TRUE, roundtrip |-> TRUE,
     advertised |-> [g \in Interfaces |-> 4]]

\* -------------------------------------------------------------- Command
\* Selector::new: the symbol, and the payload type of the PhantomData
Selector_new(s, T) == [symbol |-> s, type |-> T]

\* Command::new: the selector's symbol and the object behind an
\* Arc<dyn Any>, which keeps the type of what it was made from
Command_new(selector, object) ==
    [selector |-> selector.symbol,
     object |-> [type |-> selector.type, value |-> object]]

\* Command::is
Command_is(cmd, selector) == cmd.selector = selector.symbol

\* Command::get looking at the payload type only
Command_get_by_type(cmd, selector) ==
    IF cmd.object.type = selector.type
    THEN Res("Some", cmd.object.value)
    ELSE Res("None", 0)

\* Command::get: None for another symbol; for the same symbol the object
\* downcast to the selector's type, or a panic if it is of another type
Command_get(cmd, selector) ==
    IF cmd.selector = selector.symbol
    THEN IF cmd.object.type = selector.type
         THEN Res("Some", cmd.object.value)
         ELSE Res("panic", 0)
    ELSE Res("None", 0)

\* selector symbols, payload types and the payloads of each type
Symbols == {"", "process_rows", "use-once"}

PayloadTypes == {"unit", "u8", "u32"}

Payloads(T) ==
    CASE T = "unit" -> {0}
      [] T = "u8" -> {0, 42}
      [] T = "u32" -> {12}

Selectors == {Selector_new(s, T) : s \in Symbols, T \in PayloadTypes}

\* no Command has been made
NoCommand == [made |-> FALSE, asked |-> FALSE]

\* ------------------------------------------------------------ SingleUse
\* Option::take that leaves the value in place
Option_clone(opt) == [value |-> opt, left |-> opt]

\* Option::take: the value is handed out and None is left
Option_take(opt) == [value |-> opt, left |-> Res("None", 0)]

\* SingleUse::new: a Mutex, unlocked, around Some(data)
SingleUse_new(data) == [data |-> Res("Some", data), lock |-> "free"]

\* no SingleUse has been made
NoSingleUse == [data |-> Res("None", 0), lock |-> "free"]

\* a thread that calls take() `calls` times
Taker(calls) == [pc |-> "ready", calls |-> calls, got |-> <<>>]

\* ---------------------------------------------------------------- input
\* EventHandler::default: no focus, the cursor at the origin
EventHandler_default == [focused |-> Res("None", 0), cursor |-> <<0, 0>>]

\* the positions of the pointer, and the evdev codes of the left and the
\* right button
Points == {<<1, 2>>, <<3, 1>>}

Buttons == {272, 273}

ButtonStates == {"Pressed", "Released"}

\* wl_pointer events; a field that an event does not have is left at 0
Enter(surface, pos) ==
    [kind |-> "enter", surface |-> surface, pos |-> pos, button |-> 0,
     state |-> "none"]

Leave ==
    [kind |-> "leave", surface |-> 0, pos |-> <<0, 0>>, button |-> 0,
     state |-> "none"]

Motion(pos) ==
    [kind |-> "motion", surface |-> 0, pos |-> pos, button |-> 0,
     state |-> "none"]

Button(button, state) ==
    [kind |-> "button", surface |-> 0, pos |-> <<0, 0>>, button |-> button,
     state |-> state]

\* the MouseEvent of a motion and the handler method it is passed to
mouse_move(pos) ==
    [cb |-> "mouse_move", pos |-> pos, count |-> 0, button |-> "None",
     buttons |-> {}]

\* a click reported with the button that was pressed
click_physical(pos, button, state) ==
    [cb |-> IF state = "Pressed" THEN "mouse_down" ELSE "mouse_up",
     pos |-> pos, count |-> 1,
     button |-> IF button = 272 THEN "Left" ELSE "Right",
     buttons |-> {IF button = 272 THEN "Left" ELSE "Right"}]

\* the MouseEvent of a button event and the handler method it is passed
\* to: `button: _` is not looked at
click(pos, button, state) ==
    [cb |-> IF state = "Pressed" THEN "mouse_down" ELSE "mouse_up",
     pos |-> pos, count |-> 1, button |-> "Left", buttons |-> {"Left"}]

\* the wl_seat responder of assign_filter before any announcement
Seat_new ==
    [pointer_created |-> FALSE, keyboard_created |-> FALSE,
     pointers |-> 0, keyboards |-> 0, capabilities |-> {}]

Capability == {"Pointer", "Keyboard"}

\* the wl_seat responder of assign_filter, for Capabilities: both branches
\* call seat.get_pointer()
seat_capabilities(s, capabilities) ==
    LET p == ~s.pointer_created /\ "Pointer" \in capabilities
        k == ~s.keyboard_created /\ "Keyboard" \in capabilities
    IN  [pointer_created |-> s.pointer_created \/ p,
         keyboard_created |-> s.keyboard_created \/ k,
         pointers |-> s.pointers + (IF p THEN 1 ELSE 0)
                                 + (IF k THEN 1 ELSE 0),
         keyboards |-> s.keyboards,
         capabilities |-> capabilities]

\* ---------------------------------------------------------- the program
Threads == {"ui", "t1", "t2"}

\* the handles the embedding application can hold: a default-constructed
\* one and those build() returned (windows are never removed from
\* State::windows, so the latter always resolve)
Handles ==
    {DefaultHandle} \cup
    {WindowHandle_new(windows[i].id, i) : i \in 1..Len(windows)}

\* the step just taken: operation, handle or window it was made on, its
\* arguments, what the handler did inside its callbacks, its return value
\* and its effects
Step(op, h, arg, act, res, eff) ==
    [op |-> op, handle |-> h, arg |-> arg, act |-> act, res |-> res,
     eff |-> eff]

HandleOf(i) == WindowHandle_new(windows[i].id, i)

\* the effect of a step that only sent `requests`
Sent(requests) == [NoEffect EXCEPT !.order = requests]

\* Application::new has not been called
NotStarted ==
    [started |-> FALSE, env |-> GoodEnvironment, result |-> Res("none", 0),
     calls |-> <<>>]

\* Application::new was called in `env`
Started(env) ==
    [started |-> TRUE, env |-> env, result |-> Application_new(env),
     calls |-> Application_new_calls(env)]

\* no Command has been made and no SingleUse
NoPayloads ==
    /\ command = NoCommand
    /\ single_use = NoSingleUse
    /\ takers = [t \in Threads |-> Taker(0)]

\* assign_filter has run and the seat has announced nothing yet
NoInput ==
    /\ event_handler = EventHandler_default
    /\ seat = Seat_new

\* the application started on a server that has everything and its event
\* queue is being dispatched; windows and idle queue are followed alone
AsideInit ==
    /\ event_loop = "running"
    /\ startup = Started(GoodEnvironment)
    /\ NoPayloads
    /\ NoInput

\* the application is at work: Application::run has not returned and the
\* process has not ended in a panic
Alive == event_loop \in {"ready", "running"}

\* Application::new followed by nothing else
Init ==
    /\ window_counter = 0
    /\ windows = <<>>
    /\ last = Step("new", DefaultHandle, <<>>, NoAct, unit, NoEffect)
    /\ next_token = 1
    /\ pc = [t \in Threads |-> "ready"]
    /\ todo = [t \in Threads |-> <<>>]
    /\ idle_lock = "free"
    /\ AsideInit

\* the builder a build() is called on: its size, 1 if set_handler was
\* called, and its title
BuildArg(size, has_handler, title) ==
    <<size[1], size[2], IF has_handler THEN 1 ELSE 0, title>>

\* WindowBuilder::new, set_size, set_title, optionally set_handler, build
Build(size, has_handler, title) ==
    /\ Alive
    /\ window_counter < MaxBuilds
    /\ Len(windows) < MaxWindows
    /\ LET b == build(windows, window_counter, size, has_handler)
       IN  /\ windows' = b.windows
           /\ window_counter' = b.counter
           /\ last' = Step("build", b.handle,
                           BuildArg(size, has_handler, title),
                           NoAct, b.res, Sent(b.requests))
    /\ UNCHANGED <<next_token, threads, aside>>

\* the handler can only act inside a callback that the step runs
Ran(act, eff) ==
    IF act = NoAct THEN TRUE ELSE eff[CounterOf(act.during)] > 0

\* an event delivered to window i left it as `w`
Event(op, i, arg, act, w) ==
    /\ event_loop = "running"
    /\ Ran(act, w.eff)
    /\ w.frames <= MaxFrames
    /\ windows' = [windows EXCEPT ![i] = Settle(w)]
    /\ last' = Step(op, HandleOf(i), arg, act, unit, w.eff)
    /\ UNCHANGED <<window_counter, next_token, threads, aside>>

\* the compositor sends xdg_surface.configure
SurfaceConfigure(i, serial, fail, act) ==
    Event("surface_configure", i, <<serial>>, act,
          xdg_surface_configure(windows[i], serial, fail, act))

\* the compositor sends xdg_toplevel.configure
ToplevelConfigure(i, dims, fail, act) ==
    Event("toplevel_configure", i, dims, act,
          xdg_toplevel_configure(windows[i], dims[1], dims[2], fail, act))

\* the compositor sends xdg_toplevel.close: Window::close only logs
ToplevelClose(i) ==
    /\ event_loop = "running"
    /\ last' = Step("toplevel_close", HandleOf(i), <<>>, NoAct, unit,
                    NoEffect)
    /\ UNCHANGED <<window_counter, windows, next_token, threads, aside>>

\* a registered frame callback fires: wl_callback.done
FrameDone(i, fail, act) ==
    /\ windows[i].frames > 0
    /\ Event("frame_done", i, <<>>, act, frame_done(windows[i], fail, act))

\* with_window_handler taking the first window whatever the surface
WindowOf_any(ws, surface) == 1..Len(ws)

\* the window a surface belongs to, if any; every build() has created a
\* surface, the failed ones too, and surfaces are named by the build's id
WindowOf(ws, surface) == {i \in 1..Len(ws) : ws[i].id = surface}

\* `function` is called with the handler of `win`
Invoke(win, function) ==
    [win EXCEPT !.eff.mouse = Append(@, [on |-> win.id, event |-> function])]

First(S) == CHOOSE i \in S : \A j \in S : i <= j

\* with_window_handler returns Ok: the borrow of State ends, window i is
\* as the handler call left it
Handled(ws, i, w) ==
    Outcome([ws EXCEPT ![i] = Settle([w EXCEPT !.app_borrowed = FALSE])],
            Res("Ok", 0), w.eff)

\* Application::with_window_handler: State and the handler of the first
\* window on the focused surface are borrowed around the call of `function`
with_window_handler(ws, focused, function, act) ==
    IF WindowOf(ws, focused) = {}
    THEN Outcome(ws, Res("Err", 0), NoEffect)
    ELSE LET i == First(WindowOf(ws, focused))
         IN  IF ws[i].handler_borrowed
             THEN Outcome(ws, Res("Err", 0), Conflict(ws[i]).eff)
             ELSE Handled(ws, i,
                          callback(Invoke([ws[i] EXCEPT
                                              !.app_borrowed = TRUE],
                                          function),
                                   "pointer", act))

\* EventHandler::handle, Enter
handle_enter(self, event) ==
    [focused |-> Res("Some", event.surface), cursor |-> event.pos]

\* EventHandler::handle, Leave, with the focus kept
handle_leave_focused(self) == self

\* EventHandler::handle, Leave: the cursor stays where it was
handle_leave(self) == [self EXCEPT !.focused = Res("None", 0)]

\* EventHandler::handle, Motion, after the cursor has been set
handle_motion(self, ws, act) ==
    IF self.focused.tag = "Some"
    THEN with_window_handler(ws, self.focused.val, mouse_move(self.cursor),
                             act)
    ELSE Outcome(ws, Res("Ok", 0), NoEffect)

\* EventHandler::handle, Button
handle_button(self, ws, event, act) ==
    IF self.focused.tag = "Some"
    THEN with_window_handler(ws, self.focused.val,
                             click(self.cursor, event.button, event.state),
                             act)
    ELSE Outcome(ws, Res("Ok", 0), NoEffect)

\* EventHandler::handle for a wl_pointer event: the EventHandler it leaves
\* and what came of the handler call; an Err of with_window_handler is
\* returned with `?` after the cursor has been set
EventHandler_handle(self, ws, event, act) ==
    CASE event.kind = "enter" ->
            [self |-> handle_enter(self, event),
             out |-> Outcome(ws, Res("Ok", 0), NoEffect)]
      [] event.kind = "leave" ->
            [self |-> handle_leave(self),
             out |-> Outcome(ws, Res("Ok", 0), NoEffect)]
      [] event.kind = "motion" ->
            [self |-> [self EXCEPT !.cursor = event.pos],
             out |-> handle_motion([self EXCEPT !.cursor = event.pos], ws,
                                   act)]
      [] event.kind = "button" ->
            [self |-> self, out |-> handle_button(self, ws, event, act)]

\* `if let Err(err) = ... { log::error!(..) }` of event_filter
LoggedErr(out) ==
    IF out.res.tag = "Err" THEN [out EXCEPT !.eff.logs = @ + 1] ELSE out

\* the closure of event_filter has the result of handle
FilterLogged(r) == [r EXCEPT !.out = LoggedErr(@)]

\* the closure of event_filter: EventHandler::handle, its error logged
event_filter(self, ws, event, act) ==
    FilterLogged(EventHandler_handle(self, ws, event, act))

\* an EventHandler whose focus is `focused`
Focused(focused) == [focused |-> Res("Some", focused), cursor |-> <<0, 0>>]

\* what the handler of a pointer event may do
PointerActs == ActsIn({"pointer"}) \cup {[during |-> "pointer", op |-> "build"]}

\* the handle on the window of a surface, one that resolves to nothing if
\* there is none
HandleOn(focused) ==
    IF WindowOf(windows, focused) = {}
    THEN WindowHandle_new(focused, 0)
    ELSE HandleOf(First(WindowOf(windows, focused)))

\* the pointer event has been through event_filter with the outcome `out`
Filtered(focused, act, out) ==
    /\ Ran(act, out.eff)
    /\ \A i \in 1..Len(windows) : out.windows[i].frames <= MaxFrames
    /\ windows' = out.windows
    /\ last' = Step("pointer", HandleOn(focused), <<focused>>, act,
                    out.res, out.eff)
    /\ event_loop' = IF out.eff.panics > 0 THEN "panicked" ELSE event_loop

\* the compositor sends a pointer motion while `focused` has the pointer
\* focus (the focus itself is followed in SpecInput); a panic in the
\* handler ends the process
PointerEvent(focused, act) ==
    /\ event_loop = "running"
    /\ Filtered(focused, act,
                event_filter(Focused(focused), windows, Motion(<<0, 0>>),
                             act).out)
    /\ UNCHANGED <<window_counter, next_token, threads, startup, command,
                   single_use, takers, input>>

\* the event queue reports an error: `dispatch(..)?` ends inner_run, and
\* Application::run prints the error and returns
DispatchFails ==
    /\ event_loop = "running"
    /\ event_loop' = "returned"
    /\ last' = Step("dispatch", DefaultHandle, <<>>, NoAct, Res("Err", 0),
                    NoEffect)
    /\ UNCHANGED <<window_counter, windows, next_token, threads, startup,
                   command, single_use, takers, input>>


\* a WindowHandle call that only touches windows
Call(op, h, arg, out) ==
    /\ Alive
    /\ windows' = out.windows
    /\ last' = Step(op, h, arg, NoAct, out.res, out.eff)
    /\ UNCHANGED <<window_counter, next_token, threads, aside>>

Show(h, fail, act) ==
    LET out == WindowHandle_show(windows, h, fail, act)
    IN  /\ Alive
        /\ Ran(act, out.eff)
        /\ upgrade(h) => out.windows[h.window].frames <= MaxFrames
        /\ windows' = out.windows
        /\ last' = Step("show", h, <<>>, act, out.res, out.eff)
        /\ UNCHANGED <<window_counter, next_token, threads, aside>>

Close(h) == Call("close", h, <<>>, WindowHandle_inert(windows, h))

Resizable(h) == Call("resizable", h, <<>>, WindowHandle_inert(windows, h))

ShowTitlebar(h) ==
    Call("show_titlebar", h, <<>>, WindowHandle_inert(windows, h))

BringToFrontAndFocus(h) ==
    Call("bring_to_front_and_focus", h, <<>>, WindowHandle_inert(windows, h))

SetTitle(h) == Call("set_title", h, <<>>, WindowHandle_inert(windows, h))

SetMenu(h) == Call("set_menu", h, <<>>, WindowHandle_inert(windows, h))

\* no more than MaxFrames frame callbacks are left pending
FramesLeft(h) == upgrade(h) => windows[h.window].frames < MaxFrames

RequestAnimFrame(h) ==
    /\ FramesLeft(h)
    /\ Call("request_anim_frame", h, <<>>,
            WindowHandle_request_anim_frame(windows, h))

Invalidate(h) ==
    /\ FramesLeft(h)
    /\ Call("invalidate", h, <<>>, WindowHandle_invalidate(windows, h))

InvalidateRect(h, rect) ==
    /\ FramesLeft(h)
    /\ Call("invalidate_rect", h, rect,
            WindowHandle_invalidate_rect(windows, h, rect))

GetIdleHandle(h) ==
    Call("get_idle_handle", h, <<>>, WindowHandle_get_idle_handle(windows, h))

GetScale(h) == Call("get_scale", h, <<>>, WindowHandle_get_scale(windows, h))

RequestTimer(h, deadline) ==
    /\ Alive
    /\ upgrade(h) => Len(windows[h.window].timer_queue) < MaxTimers
    /\ LET out == WindowHandle_request_timer(windows, h, deadline, next_token)
       IN  /\ windows' = out.windows
           /\ last' = Step("request_timer", h, <<deadline>>, NoAct, out.res,
                           out.eff)
           /\ next_token' = IF upgrade(h) THEN next_token + 1 ELSE next_token
    /\ UNCHANGED <<window_counter, threads, aside>>

\* The application builds windows; the compositor configures them; they are
\* shown.
Next ==
    \/ \E size \in SizeInputs, has_handler \in BOOLEAN, title \in Titles :
          Build(size, has_handler, title)
    \/ \E i \in 1..Len(windows), serial \in Serials, fail \in Failures :
          SurfaceConfigure(i, serial, fail, NoAct)
    \/ \E h \in Handles, fail \in Failures : Show(h, fail, NoAct)
    \/ \E focused \in 0..(window_counter - 1),
          act \in {a \in PointerActs : a.op \in {"none", "build"}} :
          PointerEvent(focused, act)

Spec == Init /\ [][Next]_vars

\* One window, right after a successful build(): windows share nothing but
\* State::windows and the id counter, so its life is followed alone.
Built(size) ==
    LET b == build(<<>>, 0, size, TRUE)
    IN  /\ window_counter = b.counter
        /\ windows = b.windows
        /\ last = Step("build", b.handle,
                       BuildArg(size, TRUE, DefaultTitle), NoAct, b.res,
                       Sent(b.requests))
        /\ next_token = 1
        /\ pc = [t \in Threads |-> "ready"]
        /\ todo = [t \in Threads |-> <<>>]
        /\ idle_lock = "free"
        /\ AsideInit

InitWindow == \E size \in SizeInputs : Built(size)

\* the callbacks a render runs, and those a configure runs
InRender == {"prepare_paint", "paint"}

InConfigure == {"connect", "size"} \cup InRender

\* the passes followed: one in which the handler only does what it is
\* asked and the render may fail, or one in which nothing fails and the
\* handler calls back into its window
Passes(cbs) == (Failures \X {NoAct}) \cup ({"none"} \X ActsIn(cbs))

NextWindow ==
    \/ \E i \in 1..Len(windows), serial \in Serials,
          p \in Passes(InConfigure) :
          SurfaceConfigure(i, serial, p[1], p[2])
    \/ \E i \in 1..Len(windows), dims \in ConfigureDims,
          p \in Passes(InConfigure \ {"connect"}) :
          ToplevelConfigure(i, dims, p[1], p[2])
    \/ \E i \in 1..Len(windows) : ToplevelClose(i)
    \/ \E i \in 1..Len(windows), p \in Passes(InRender) :
          FrameDone(i, p[1], p[2])
    \/ \E focused \in 0..(window_counter - 1), act \in PointerActs :
          PointerEvent(focused, act)
    \/ DispatchFails
    \/ \E h \in Handles, p \in Passes(InRender) : Show(h, p[1], p[2])
    \/ \E h \in Handles : RequestAnimFrame(h)
    \/ \E h \in Handles : Invalidate(h)
    \/ \E h \in Handles, rect \in RectInputs : InvalidateRect(h, rect)

SpecWindow == InitWindow /\ [][NextWindow]_vars

\* Every WindowHandle operation, on a live and on a dangling handle, on a
\* window built with the default size.
InitDefault == Built(DefaultSize)

NextHandle ==
    \/ \E h \in Handles : Show(h, "none", NoAct)
    \/ \E h \in Handles : Close(h)
    \/ \E h \in Handles : Resizable(h)
    \/ \E h \in Handles : ShowTitlebar(h)
    \/ \E h \in Handles : BringToFrontAndFocus(h)
    \/ \E h \in Handles : RequestAnimFrame(h)
    \/ \E h \in Handles : Invalidate(h)
    \/ \E h \in Handles, rect \in RectInputs : InvalidateRect(h, rect)
    \/ \E h \in Handles : SetTitle(h)
    \/ \E h \in Handles : SetMenu(h)
    \/ \E h \in Handles, deadline \in 1..MaxDeadline : RequestTimer(h, deadline)
    \/ \E h \in Handles : GetIdleHandle(h)
    \/ \E h \in Handles : GetScale(h)

SpecHandle == InitDefault /\ [][NextHandle]_vars

\* invalidate_rect on small rectangles, before any render
RegionLeft(i) == Cardinality(windows[i].invalid) < MaxRects

NextRegion ==
    \E i \in 1..Len(windows), rect \in SmallRects :
        RegionLeft(i) /\ InvalidateRect(HandleOf(i), rect)

SpecRegion == InitDefault /\ [][NextRegion]_vars

\* Application::new in every environment
InitStartup ==
    /\ window_counter = 0
    /\ windows = <<>>
    /\ last = Step("none", DefaultHandle, <<>>, NoAct, unit, NoEffect)
    /\ next_token = 1
    /\ pc = [t \in Threads |-> "ready"]
    /\ todo = [t \in Threads |-> <<>>]
    /\ idle_lock = "free"
    /\ event_loop = "none"
    /\ startup = NotStarted
    /\ NoPayloads
    /\ NoInput

New(env) ==
    /\ ~startup.started
    /\ startup' = Started(env)
    /\ event_loop' = IF Application_new(env).tag = "Ok" THEN "ready" ELSE "none"
    /\ UNCHANGED <<window_counter, windows, last, next_token, threads,
                   command, single_use, takers, input>>

NextStartup ==
    \/ \E env \in Environments : New(env)
    \/ \E title \in Titles : Build(DefaultSize, TRUE, title)

SpecStartup == InitStartup /\ [][NextStartup]_vars

\* A Command is made from a selector and a payload of its type, and is
\* then asked about with any selector.
InitCommand ==
    /\ window_counter = 0
    /\ windows = <<>>
    /\ last = Step("none", DefaultHandle, <<>>, NoAct, unit, NoEffect)
    /\ next_token = 1
    /\ pc = [t \in Threads |-> "ready"]
    /\ todo = [t \in Threads |-> <<>>]
    /\ idle_lock = "free"
    /\ AsideInit

CommandNew(selector, object) ==
    /\ ~command.made
    /\ command' = [made |-> TRUE, asked |-> FALSE, selector |-> selector,
                   payload |-> object,
                   cmd |-> Command_new(selector, object)]
    /\ UNCHANGED <<window_counter, windows, last, next_token, threads,
                   event_loop, startup, single_use, takers, input>>

CommandAsk(selector) ==
    /\ command.made
    /\ ~command.asked
    /\ command' = [made |-> TRUE, asked |-> TRUE,
                   selector |-> command.selector,
                   payload |-> command.payload,
                   cmd |-> command.cmd,
                   with |-> selector,
                   is |-> Command_is(command.cmd, selector),
                   get |-> Command_get(command.cmd, selector)]
    /\ UNCHANGED <<window_counter, windows, last, next_token, threads,
                   event_loop, startup, single_use, takers, input>>

NextCommand ==
    \/ \E selector \in Selectors :
          \E object \in Payloads(selector.type) : CommandNew(selector, object)
    \/ \E selector \in Selectors : CommandAsk(selector)

SpecCommand == InitCommand /\ [][NextCommand]_vars

\* A SingleUse holding 42, shared by the threads, each of which calls
\* take() up to MaxTakes times.
InitSingleUse ==
    /\ window_counter = 0
    /\ windows = <<>>
    /\ last = Step("none", DefaultHandle, <<>>, NoAct, unit, NoEffect)
    /\ next_token = 1
    /\ pc = [t \in Threads |-> "ready"]
    /\ todo = [t \in Threads |-> <<>>]
    /\ idle_lock = "free"
    /\ event_loop = "running"
    /\ startup = Started(GoodEnvironment)
    /\ command = NoCommand
    /\ single_use = SingleUse_new(42)
    /\ takers \in [Threads -> {Taker(n) : n \in 0..MaxTakes}]
    /\ NoInput

\* SingleUse::take, self.0.lock(): the thread has the Mutex
TakeLock(t) ==
    /\ takers[t].pc = "ready"
    /\ takers[t].calls > 0
    /\ single_use.lock = "free"
    /\ single_use' = [single_use EXCEPT !.lock = t]
    /\ takers' = [takers EXCEPT ![t].pc = "locked"]
    /\ UNCHANGED <<window_counter, windows, last, next_token, threads,
                   event_loop, startup, command, input>>

\* SingleUse::take, .unwrap().take(): the Option is taken, the guard
\* dropped and the value returned
TakeReturn(t) ==
    /\ takers[t].pc = "locked"
    /\ single_use.lock = t
    /\ LET r == Option_take(single_use.data)
       IN  /\ single_use' = [data |-> r.left, lock |-> "free"]
           /\ takers' = [takers EXCEPT ![t] =
                            [pc |-> "ready", calls |-> @.calls - 1,
                             got |-> Append(@.got, r.value)]]
    /\ UNCHANGED <<window_counter, windows, last, next_token, threads,
                   event_loop, startup, command, input>>

NextSingleUse ==
    \/ \E t \in Threads : TakeLock(t)
    \/ \E t \in Threads : TakeReturn(t)

SpecSingleUse == InitSingleUse /\ [][NextSingleUse]_vars

\* Two windows and, between their builds, a build() that failed for want
\* of a handler and left a surface without a window; the seat announces its
\* capabilities and the pointer objects deliver events to the input filter.
InitInput ==
    LET b1 == build(<<>>, 0, DefaultSize, TRUE)
        b2 == build(b1.windows, b1.counter, DefaultSize, FALSE)
        b3 == build(b2.windows, b2.counter, DefaultSize, TRUE)
    IN  /\ window_counter = b3.counter
        /\ windows = b3.windows
        /\ last = Step("build", b3.handle,
                       BuildArg(DefaultSize, TRUE, DefaultTitle), NoAct,
                       b3.res, Sent(b3.requests))
        /\ next_token = 1
        /\ pc = [t \in Threads |-> "ready"]
        /\ todo = [t \in Threads |-> <<>>]
        /\ idle_lock = "free"
        /\ AsideInit

\* the events a wl_pointer can deliver
PointerEvents ==
    {Enter(surface, pos) : surface \in 0..(window_counter - 1),
                           pos \in Points}
    \cup {Leave}
    \cup {Motion(pos) : pos \in Points}
    \cup {Button(button, state) : button \in Buttons,
                                  state \in ButtonStates}

\* the server announces the capabilities of the seat
Capabilities(capabilities) ==
    /\ event_loop = "running"
    /\ seat' = seat_capabilities(seat, capabilities)
    /\ last' = Step("capabilities", DefaultHandle, <<capabilities>>, NoAct,
                    unit, NoEffect)
    /\ UNCHANGED <<window_counter, windows, next_token, threads, event_loop,
                   startup, command, single_use, takers, event_handler>>

\* the handle on the window that has the focus
OnFocus(focused) ==
    IF focused.tag = "Some" THEN HandleOn(focused.val) ELSE DefaultHandle

\* the input filter has been given `event` by the k-th pointer object, and
\* `r` is what it made of it
Delivered(k, event, r) ==
    /\ event_handler' = r.self
    /\ windows' = r.out.windows
    /\ last' = Step(event.kind, OnFocus(r.self.focused), <<k, event>>, NoAct,
                    r.out.res, r.out.eff)

\* the server sends a pointer event: each wl_pointer object that the seat
\* responder created receives it and hands it to the input filter
Deliver(k, event) ==
    /\ event_loop = "running"
    /\ "Pointer" \in seat.capabilities
    /\ Delivered(k, event,
                 event_filter(event_handler, windows, event, NoAct))
    /\ UNCHANGED <<window_counter, next_token, threads, event_loop, startup,
                   command, single_use, takers, seat>>

NextInput ==
    \/ \E capabilities \in SUBSET Capability : Capabilities(capabilities)
    \/ \E k \in 1..seat.pointers, event \in PointerEvents : Deliver(k, event)

SpecInput == InitInput /\ [][NextInput]_vars

\* ------------------------------------------------------------ IdleHandle
IdleKinds == {"Callback", "Token", "Redraw"}

\* the items 1..MaxIdle, each given to one thread to enqueue with one of
\* the three IdleHandle methods; a thread enqueues its items in order
Programs == [1..MaxIdle -> Threads \X IdleKinds]

RECURSIVE ItemsOf(_, _, _)
ItemsOf(p, t, n) ==
    IF n = 0 THEN <<>>
    ELSE LET rest == ItemsOf(p, t, n - 1)
         IN  IF p[n][1] = t
             THEN Append(rest, [kind |-> p[n][2], tag |-> n, by |-> t])
             ELSE rest

InitIdle ==
    \E p \in Programs :
        LET b == build(<<>>, 0, DefaultSize, TRUE)
        IN  /\ window_counter = b.counter
            /\ windows = b.windows
            /\ last = Step("build", b.handle,
                           BuildArg(DefaultSize, TRUE, DefaultTitle),
                           NoAct, b.res, Sent(b.requests))
            /\ next_token = 1
            /\ pc = [t \in Threads |-> "ready"]
            /\ todo = [t \in Threads |-> ItemsOf(p, t, MaxIdle)]
            /\ idle_lock = "free"
            /\ AsideInit

\* Mutex::lock at the start of an IdleHandle method
IdleLock(t) ==
    /\ idle_lock = "free"
    /\ idle_lock' = t
    /\ pc' = [pc EXCEPT ![t] = "push"]
    /\ UNCHANGED <<window_counter, windows, last, next_token, todo, aside>>

\* IdleHandle::schedule_redraw is called
ScheduleRedraw(t) ==
    /\ pc[t] = "ready"
    /\ todo[t] # <<>>
    /\ Head(todo[t]).kind = "Redraw"
    /\ IdleLock(t)

\* IdleHandle::add_idle_callback is called
AddIdleCallback(t) ==
    /\ pc[t] = "ready"
    /\ todo[t] # <<>>
    /\ Head(todo[t]).kind = "Callback"
    /\ IdleLock(t)

\* IdleHandle::add_idle_token is called
AddIdleToken(t) ==
    /\ pc[t] = "ready"
    /\ todo[t] # <<>>
    /\ Head(todo[t]).kind = "Token"
    /\ IdleLock(t)

\* Vec::push under the lock; the guard is dropped with the statement
IdlePush(t) ==
    /\ pc[t] = "push"
    /\ idle_lock = t
    /\ windows' = [windows EXCEPT ![1].idle_queue = Append(@, Head(todo[t]))]
    /\ todo' = [todo EXCEPT ![t] = Tail(@)]
    /\ idle_lock' = "free"
    /\ pc' = [pc EXCEPT ![t] = "wake"]
    /\ UNCHANGED <<window_counter, last, next_token, aside>>

\* IdleHandle::wake is unimplemented!(): the calling thread panics
Wake(t) ==
    /\ pc[t] = "wake"
    /\ pc' = [pc EXCEPT ![t] = "panicked"]
    /\ UNCHANGED <<window_counter, windows, last, next_token, todo, idle_lock,
                 aside>>

\* the UI thread is the main thread: once it has panicked the process
\* ends, and the other threads with it
Exit ==
    /\ pc["ui"] = "panicked"
    /\ \E t \in Threads : pc[t] \notin {"panicked", "killed"}
    /\ pc' = [t \in Threads |-> IF pc[t] = "panicked" THEN "panicked"
                                ELSE "killed"]
    /\ idle_lock' = "free"
    /\ UNCHANGED <<window_counter, windows, last, next_token, todo, aside>>

NextIdle ==
    \/ \E t \in Threads : ScheduleRedraw(t)
    \/ \E t \in Threads : AddIdleCallback(t)
    \/ \E t \in Threads : AddIdleToken(t)
    \/ \E t \in Threads : IdlePush(t)
    \/ \E t \in Threads : Wake(t)
    \/ Exit

SpecIdle == InitIdle /\ [][NextIdle]_vars

\* =============================================================== claims
Live(i) == i \in 1..Len(windows)

\* C1: while a window has not had its first xdg_surface configure, no step
\* taken on it (show, invalidate, invalidate_rect, request_anim_frame, a
\* frame callback, a toplevel configure, a call the handler makes from
\* inside its size callback) invokes paint or attaches a buffer, no buffer
\* exists, and every render() in it returns Ok.
C1_UnconfiguredNeverPaints ==
    \A i \in 1..Len(windows) :
        ~windows[i].configured =>
            /\ ~windows[i].buffer
            /\ windows[i].surface = <<0, 0>>
            /\ last.handle = HandleOf(i) =>
                  /\ last.eff.paints = 0
                  /\ last.eff.prepares = 0
                  /\ last.eff.attaches = 0
                  /\ last.eff.render_errs = 0
                  /\ last.eff.render \in {"none", "ok"}

\* a frame callback has fired on an unconfigured window that was resized by
\* a toplevel configure and has damage, and its render() returned Ok
C1_Witness ==
    \E i \in 1..Len(windows) :
        /\ ~windows[i].configured
        /\ last.op = "frame_done"
        /\ last.eff.render = "ok"
        /\ windows[i].size # windows[i].initial_size
        /\ windows[i].invalid # {}

\* C2: connect and the initial size notification have been issued once if
\* the window is configured and not at all otherwise; a surface configure
\* always leaves the window configured, so it is the first one that issues
\* them and no later one does.
C2_ConnectExactlyOnce ==
    \A i \in 1..Len(windows) :
        /\ windows[i].connects = IF windows[i].configured THEN 1 ELSE 0
        /\ windows[i].initial_sizes = windows[i].connects
        /\ (last.op = "surface_configure" /\ last.handle = HandleOf(i)) =>
              /\ windows[i].configured
              /\ last.eff.acked = last.arg[1]

\* a second surface configure, with another serial, that invoked neither
\* connect nor size
C2_Witness ==
    \E i \in 1..Len(windows) :
        /\ last.op = "surface_configure"
        /\ last.arg = <<MaxSerial>>
        /\ last.eff.connects = 0
        /\ last.eff.sizes = 0
        /\ windows[i].connects = 1

\* C3: after a render() of a configured window that returned Ok the
\* invalid region is empty.
C3_SuccessfulRenderClearsInvalid ==
    \A i \in 1..Len(windows) :
        (/\ last.handle = HandleOf(i)
         /\ windows[i].configured
         /\ last.eff.render = "ok") => windows[i].invalid = {}

\* C5: a toplevel configure with a new size on a configured window, whose
\* render succeeds, reallocates the backing surface once and leaves exactly
\* the full bounds of the new size in the invalid region.
C5_ResizeInvalidatesExactlyFullBounds ==
    [][\A i \in 1..Len(windows) :
          (/\ last'.op = "toplevel_configure"
           /\ last'.handle = HandleOf(i)
           /\ windows[i].configured
           /\ last'.arg[1] > 0 /\ last'.arg[2] > 0
           /\ last'.arg # windows[i].size
           /\ last'.eff.render = "ok")
          => /\ last'.eff.allocs = 1
             /\ windows'[i].surface = last'.arg
             /\ windows'[i].invalid = {to_rect(last'.arg)}]_vars

Cells(r) == (r[1]..(r[3] - 1)) \X (r[2]..(r[4] - 1))

Cover(region) == UNION {Cells(r) : r \in region}

\* the cells of every whole logical unit square that r reaches into
WholeUnits(r) ==
    {c \in (0..(MaxCoord + Unit)) \X (0..(MaxCoord + Unit)) :
        \E d \in Cells(r) :
            /\ d[1] \div Unit = c[1] \div Unit
            /\ d[2] \div Unit = c[2] \div Unit}

\* r grown by one logical unit on each of its four sides
Enlarged(r) == <<r[1] - Unit, r[2] - Unit, r[3] + Unit, r[4] + Unit>>

IsWhole(r) == \A k \in 1..4 : r[k] % Unit = 0

\* C4 as amended: invalidate_rect(r) adds to the invalid region r with each
\* edge moved outwards to the next whole logical unit, and nothing else; a
\* rectangle with whole coordinates is added as it is.  It registers one
\* frame callback.
C4_InvalidateRectRoundsOutwards ==
    [][\A i \in 1..Len(windows) :
          (last'.op = "invalidate_rect" /\ last'.handle = HandleOf(i)) =>
             /\ Cover(windows'[i].invalid) =
                   Cover(windows[i].invalid) \cup WholeUnits(last'.arg)
             /\ (IsWhole(last'.arg) /\ Cells(last'.arg) # {}) =>
                   windows'[i].invalid = windows[i].invalid \cup {last'.arg}
             /\ windows'[i].frames = windows[i].frames + 1]_vars

\* a second rectangle, with an edge between whole units, has been added and
\* the region covers more than the two rectangles themselves
C4_Witness ==
    \E i \in 1..Len(windows) :
        /\ last.op = "invalidate_rect"
        /\ ~IsWhole(last.arg)
        /\ Cells(last.arg) # {}
        /\ Cardinality(windows[i].invalid) = 2
        /\ Cover(windows[i].invalid) # Cells(last.arg)

\* C4 as claimed: invalidate_rect(r), r not empty and with whole
\* coordinates, adds r enlarged by one unit on each side.
C4_InvalidateRectEnlargesByOne ==
    [][\A i \in 1..Len(windows) :
          (/\ last'.op = "invalidate_rect"
           /\ last'.handle = HandleOf(i)
           /\ IsWhole(last'.arg)
           /\ Cells(last'.arg) # {}) =>
             Cover(windows'[i].invalid) =
                Cover(windows[i].invalid) \cup Cells(Enlarged(last'.arg))]_vars

\* the return value a WindowHandle method documents for a vanished window
Fallback(op) ==
    CASE op = "request_timer" -> Res("token", INVALID)
      [] op = "get_idle_handle" -> Res("None", 0)
      [] op = "get_scale" -> Res("Ok", 1)
      [] OTHER -> unit

\* C6: a WindowHandle method called on a handle that does not resolve
\* changes nothing and returns its fallback.
C6_DeadHandleIsInert ==
    [][~upgrade(last'.handle) =>
          /\ windows' = windows
          /\ window_counter' = window_counter
          /\ next_token' = next_token
          /\ UNCHANGED threads
          /\ last'.eff = NoEffect
          /\ last'.res = Fallback(last'.op)]_vars

\* request_timer on the default handle returned the invalid token while the
\* live window had timers, damage and a pending frame callback
C6_Witness ==
    /\ last.op = "request_timer"
    /\ ~upgrade(last.handle)
    /\ last.res = Res("token", INVALID)
    /\ Len(windows[1].timer_queue) = 2
    /\ windows[1].invalid # {}
    /\ windows[1].frames > 0

\* every thread has returned from its last call, has panicked or was killed
Quiescent ==
    \A t \in Threads :
        \/ pc[t] \in {"panicked", "killed"}
        \/ pc[t] = "ready" /\ todo[t] = <<>>

Occurrences(q, n) == Cardinality({k \in 1..Len(q) : q[k].tag = n})

\* C7: once the threads have enqueued the items 1..MaxIdle, the queue holds
\* each of them exactly once, the items of one thread in that thread's
\* order.
C7_IdleQueueHoldsEveryItemOnce ==
    Quiescent =>
        LET q == windows[1].idle_queue
        IN  /\ \A n \in 1..MaxIdle : Occurrences(q, n) = 1
            /\ \A j, k \in 1..Len(q) :
                  (j < k /\ q[j].by = q[k].by) => q[j].tag < q[k].tag

\* C8: a thread that calls schedule_redraw, add_idle_callback or
\* add_idle_token never panics, and holds the lock neither in wake nor
\* after it.
C8_EnqueueReturnsNormally ==
    \A t \in Threads :
        /\ pc[t] # "panicked"
        /\ pc[t] = "wake" => idle_lock # t

\* C9: the timer at the head of a window's timer heap has the earliest
\* deadline of all timers in the heap.
C9_EarliestDeadlineFirst ==
    \A i \in 1..Len(windows) :
        LET heap == windows[i].timer_queue
        IN  \A k \in 1..Len(heap) :
                heap_peek(heap).deadline <= heap[k].deadline

\* three timers were requested, the second with an earlier deadline than
\* the first and the third, and the second is at the head
C9_Witness ==
    \E i \in 1..Len(windows) :
        LET heap == windows[i].timer_queue
        IN  /\ Len(heap) = 3
            /\ heap_peek(heap).token = 2
            /\ \A k \in 2..3 : heap_peek(heap).deadline < heap[k].deadline

\* C11: window_counter never decreases; a successful build() gives the new
\* window the value the counter had, which is greater than the id of every
\* window built before, so the ids in State::windows are pairwise distinct;
\* a failed build() consumes an id as well.
C11_WindowIdsStrictlyIncrease ==
    [][/\ window_counter' >= window_counter
       /\ last'.op = "build" => window_counter' = window_counter + 1
       /\ (last'.op = "build" /\ last'.res.tag = "Ok") =>
             /\ windows'[Len(windows')].id = window_counter
             /\ \A i \in 1..Len(windows) :
                   windows[i].id < windows'[Len(windows')].id
       /\ \A i, j \in 1..Len(windows') :
             i < j => windows'[i].id < windows'[j].id]_vars

\* two windows were built with a failed build() between them, and the
\* second one has skipped the id the failed build consumed
C11_Witness ==
    /\ Len(windows) = 2
    /\ windows[2].id = windows[1].id + 2
    /\ last.op = "build"
    /\ last.res.tag = "Ok"

\* the four required globals are advertised with the version asked for
AllBound(env) ==
    \A k \in 1..Len(Required) :
        env.advertised[Required[k].interface] >= Required[k].version

\* C12: Application::new returns an Application exactly when the display
\* connection and the first roundtrip succeed and each of the four required
\* globals is advertised (with the version asked for); the Application then
\* holds all four and has its input filter assigned.  Otherwise it returns
\* an error, and there is no Application and no event loop.
C12_StartupAllOrNothing ==
    startup.started =>
        LET env == startup.env
            ok == env.connect /\ env.roundtrip /\ AllBound(env)
        IN  /\ startup.result.tag = IF ok THEN "Ok" ELSE "Err"
            /\ startup.result.tag = "Ok" =>
                  /\ startup.result.val.globals = Interfaces
                  /\ startup.result.val.filter_assigned
            /\ startup.result.tag = "Err" =>
                  /\ event_loop = "none"
                  /\ windows = <<>>

\* startup failed on a server that advertises everything but the seat
C12_Witness ==
    /\ startup.started
    /\ startup.env.connect
    /\ startup.env.roundtrip
    /\ startup.env.advertised["wl_seat"] = 0
    /\ \A g \in Interfaces \ {"wl_seat"} : startup.env.advertised[g] = 4
    /\ startup.result.tag = "Err"

\* the steps in which the dispatch loop delivers an event to a window, and
\* show()
Dispatched ==
    {"surface_configure", "toplevel_configure", "frame_done", "pointer"}

\* the step just taken had a render() that failed, or a pointer event that
\* could not be routed
Failed(step) ==
    \/ step.eff.render_errs > 0
    \/ step.op = "pointer" /\ step.res.tag = "Err"

\* the errors of the step: failed renders and a failed routing
Errors(step) ==
    step.eff.render_errs
    + (IF step.op = "pointer" /\ step.res.tag = "Err" THEN 1 ELSE 0)

\* C13: a step in which a render() fails (in the surface-configure
\* responder, the toplevel-configure responder, a frame callback or show())
\* or in which a pointer event cannot be routed does not panic, leaves the
\* dispatch loop running, and logs each of its errors.
C13_FailuresAreLoggedAndSurvived ==
    [][(last'.op \in Dispatched \cup {"show"} /\ Failed(last')) =>
          /\ last'.eff.panics = 0
          /\ event_loop' = event_loop
          /\ last'.eff.logs >= Errors(last')]_vars

\* the part of C13 that the code keeps: the loop survives every failure
C13_FailuresAreSurvived ==
    [][(last'.op \in Dispatched \cup {"show"} /\ Failed(last')) =>
          /\ last'.eff.panics = 0
          /\ event_loop' = event_loop]_vars

\* C14: no step panics, whatever is borrowed when it needs the application
\* or window state; in particular build() called by the handler of a
\* pointer event returns.
C14_BorrowContentionNeverPanics ==
    [][/\ last'.eff.panics = 0
       /\ event_loop' # "panicked"]_vars

\* the step just taken was invalidate() or invalidate_rect() on window i,
\* called by the application or by the handler of a pointer event
Invalidated(step, i) ==
    /\ step.handle = HandleOf(i)
    /\ \/ step.op \in {"invalidate", "invalidate_rect"}
       \/ /\ step.op = "pointer"
          /\ step.act.op \in {"invalidate", "invalidate_rect"}

\* C15: invalidate() and invalidate_rect() return without a render, a
\* prepare_paint, a paint or a buffer attach; they only grow the invalid
\* region and register one frame callback.  The frame callback, when it
\* fires on a configured window, is what paints.
C15_InvalidateDefersPaint ==
    [][\A i \in 1..Len(windows) :
          /\ Invalidated(last', i) =>
                /\ last'.eff.renders = 0
                /\ last'.eff.prepares = 0
                /\ last'.eff.paints = 0
                /\ last'.eff.attaches = 0
                /\ windows[i].invalid \subseteq windows'[i].invalid
                /\ windows'[i].frames = windows[i].frames + 1
                /\ [windows'[i] EXCEPT !.invalid = {}, !.frames = 0] =
                      [windows[i] EXCEPT !.invalid = {}, !.frames = 0]
          /\ (/\ last'.op = "frame_done"
              /\ last'.handle = HandleOf(i)
              /\ windows[i].configured) =>
                /\ windows'[i].frames <= windows[i].frames
                /\ last'.eff.prepares = 1
                /\ last'.eff.render = "ok" => last'.eff.paints = 1]_vars

\* invalidate_rect() was called on a configured window that has a buffer
\* and already had a frame callback pending, and nothing was painted
C15_Witness ==
    \E i \in 1..Len(windows) :
        /\ last.op = "invalidate_rect"
        /\ last.handle = HandleOf(i)
        /\ windows[i].configured
        /\ windows[i].buffer
        /\ windows[i].frames = 2
        /\ last.eff.paints = 0

\* C16: a successful build() has set the title of the new window's
\* toplevel to the builder's title, and every window has the same
\* application identifier.
C16_TitleIsTheBuildersTitle ==
    [][(last'.op = "build" /\ last'.res.tag = "Ok") =>
          /\ windows'[Len(windows')].title = last'.arg[4]
          /\ \A i \in 1..Len(windows') :
                windows'[i].app_id = windows'[1].app_id]_vars

\* C17: a Command made from selector s and payload p answers get(s) with
\* Some(p) and is(s) with true; asked with a selector of another symbol it
\* answers get with None and is with false.
C17_CommandRoundTrip ==
    command.asked =>
        /\ command.with = command.selector =>
              /\ command.get = Res("Some", command.payload)
              /\ command.is
        /\ command.with.symbol # command.selector.symbol =>
              /\ command.get = Res("None", 0)
              /\ ~command.is

\* a command carrying 42 was asked with a selector of the same payload type
\* and another symbol, and answered None
C17_Witness ==
    /\ command.asked
    /\ command.payload = 42
    /\ command.with.type = command.selector.type
    /\ command.with.symbol # command.selector.symbol
    /\ command.get.tag = "None"

\* the take() calls that have returned Some, as <<thread, call>> pairs
Winners ==
    {c \in Threads \X (1..MaxTakes) :
        /\ c[2] <= Len(takers[c[1]].got)
        /\ takers[c[1]].got[c[2]].tag = "Some"}

\* C18: as long as no take() has returned the value is in the SingleUse;
\* from the first take() that returns on, the SingleUse is empty, that one
\* call has returned the stored value and every other call has returned
\* None, whichever threads the calls are made on.
C18_SingleUseTakenOnce ==
    IF \A t \in Threads : takers[t].got = <<>>
    THEN single_use.data = Res("Some", 42)
    ELSE /\ single_use.data = Res("None", 0)
         /\ Cardinality(Winners) = 1
         /\ \A c \in Winners : takers[c[1]].got[c[2]] = Res("Some", 42)

\* all three threads have called take() MaxTakes times, and the value went
\* to the first call of a thread other than the UI thread
C18_Witness ==
    /\ \A t \in Threads : Len(takers[t].got) = MaxTakes
    /\ \E t \in Threads \ {"ui"} : <<t, 1>> \in Winners
    /\ takers["ui"].got[1].tag = "None"


\* C19: every surface configure with serial n, the first one of a window
\* and every later one, is acknowledged once, with n, and no connect, size
\* or render of the step comes before the acknowledgment.
C19_ConfigureAckedFirst ==
    last.op = "surface_configure" =>
        /\ last.eff.acks = 1
        /\ last.eff.acked = last.arg[1]
        /\ last.eff.unacked = 0

\* a window that had been connected before got a configure with the
\* serial MaxSerial and acknowledged it without another connect
C19_Witness ==
    \E i \in 1..Len(windows) :
        /\ last.op = "surface_configure"
        /\ last.handle = HandleOf(i)
        /\ last.arg[1] = MaxSerial
        /\ last.eff.acked = MaxSerial
        /\ last.eff.connects = 0
        /\ windows[i].connects = 1

\* C20: a toplevel configure with positive width and height stores them as
\* the size, calls size once and connect never, and attempts one render
\* (the handler may ask for more from inside its callback); with a
\* non-positive width or height the window is left as it is and neither
\* size nor render is called.
C20_ToplevelConfigureIffPositive ==
    [][\A i \in 1..Len(windows) :
          (last'.op = "toplevel_configure" /\ last'.handle = HandleOf(i)) =>
             IF last'.arg[1] > 0 /\ last'.arg[2] > 0
             THEN /\ windows'[i].size = last'.arg
                  /\ last'.eff.sizes = 1
                  /\ last'.eff.connects = 0
                  /\ last'.eff.renders >= 1
                  /\ last'.act = NoAct => last'.eff.renders = 1
             ELSE /\ windows'[i] = windows[i]
                  /\ last'.eff.sizes = 0
                  /\ last'.eff.renders = 0]_vars

\* a configured window of 500x400 with a buffer got a toplevel configure of
\* 800x600, was told once and rendered once at that size
C20_Witness ==
    \E i \in 1..Len(windows) :
        /\ last.op = "toplevel_configure"
        /\ last.handle = HandleOf(i)
        /\ last.arg = <<800, 600>>
        /\ windows[i].initial_size = <<500, 400>>
        /\ windows[i].size = <<800, 600>>
        /\ windows[i].surface = <<800, 600>>
        /\ last.eff.sizes = 1
        /\ last.eff.renders = 1
        /\ last.eff.paints = 1

\* C21: a step whose every render() failed (the handler was borrowed, the
\* allocation failed, or finish failed) leaves in the invalid region all
\* that was in it and attaches no buffer; and every paint, so the one of
\* the next render(), is handed a region that holds all that was invalid
\* before the step.
C21_FailedRenderKeepsDamage ==
    [][\A i \in 1..Len(windows) :
          last'.handle = HandleOf(i) =>
             /\ (/\ last'.eff.renders > 0
                 /\ last'.eff.render_errs = last'.eff.renders) =>
                   /\ windows[i].invalid \subseteq windows'[i].invalid
                   /\ last'.eff.attaches = 0
             /\ last'.eff.paints > 0 =>
                   windows[i].invalid \subseteq last'.eff.painted]_vars

\* the render of a frame callback failed at finish, after paint, on a
\* window whose invalid region held a rectangle besides its full bounds,
\* and nothing was attached
C21_Witness ==
    \E i \in 1..Len(windows) :
        /\ last.op = "frame_done"
        /\ last.handle = HandleOf(i)
        /\ last.eff.render = "err"
        /\ last.eff.paints = 1
        /\ last.eff.attaches = 0
        /\ Cardinality(windows[i].invalid) >= 2
        /\ windows[i].invalid = last.eff.painted

\* C22: a successful render() of a window whose backing surface and
\* buffer were allocated at its present logical size allocates nothing, and
\* what it hands to paint is the damage that was there before it.
C22_UnchangedSizeReusesBuffer ==
    [][\A i \in 1..Len(windows) :
          (/\ last'.handle = HandleOf(i)
           /\ last'.act = NoAct
           /\ last'.eff.render = "ok"
           /\ windows[i].configured
           /\ windows[i].buffer
           /\ windows[i].surface = windows'[i].size) =>
             /\ last'.eff.allocs = 0
             /\ last'.eff.painted = windows[i].invalid]_vars

\* the calls of one successful pass of render(), in the order of the code
Pipeline ==
    <<"prepare_paint", "paint", "finish", "attach", "damage_buffer", "commit">>

Requested(act) ==
    IF act.op \in {"request_anim_frame", "invalidate", "invalidate_rect"}
    THEN 1 ELSE 0

\* C24: a frame callback fires only if it is registered, is spent by
\* firing and calls render() once; render() registers none, so that after
\* a frame callback, a show() or a configure the window has one callback
\* more only if the handler asked for one from inside the step.
C24_FrameCallbackIsOneShot ==
    [][\A i \in 1..Len(windows) :
          last'.handle = HandleOf(i) =>
             /\ last'.op = "frame_done" =>
                   /\ windows[i].frames > 0
                   /\ windows'[i].frames =
                         windows[i].frames - 1 + Requested(last'.act)
                   /\ last'.eff.renders >= 1
                   /\ last'.act.op # "show" => last'.eff.renders = 1
             /\ last'.op \in {"show", "surface_configure",
                              "toplevel_configure"} =>
                   windows'[i].frames =
                      windows[i].frames + Requested(last'.act)]_vars

\* the only frame callback of a configured window has fired, the window
\* was painted once and has no callback left
C24_Witness ==
    \E i \in 1..Len(windows) :
        /\ last.op = "frame_done"
        /\ last.handle = HandleOf(i)
        /\ last.act = NoAct
        /\ windows[i].configured
        /\ windows[i].frames = 0
        /\ last.eff.renders = 1
        /\ last.eff.paints = 1

\* C25: the closures registered on a window's protocol objects hold no
\* strong reference to the window: State::windows is its only owner, and
\* the window is released when the application lets go of it.
C25_CallbacksHoldOnlyWeak ==
    \A i \in 1..Len(windows) : windows[i].strong \subseteq {"State::windows"}

\* the surface has a window
HasWindow(surface) == \E i \in 1..Len(windows) : windows[i].id = surface

\* the focus is on the surface of a window
FocusOnWindow ==
    /\ event_handler.focused.tag = "Some"
    /\ HasWindow(event_handler.focused.val)

\* C26: a motion event sets the cursor to its coordinates and leaves the
\* focus; if the focus is the surface of a window, mouse_move is called
\* once, on that window's handler, with the motion's coordinates, and no
\* other handler is called; otherwise no handler is called.
C26_MotionGoesToTheFocusedWindow ==
    [][last'.op = "motion" =>
          /\ event_handler'.cursor = last'.arg[2].pos
          /\ event_handler'.focused = event_handler.focused
          /\ last'.eff.mouse =
                IF FocusOnWindow
                THEN <<[on |-> event_handler.focused.val,
                        event |-> [cb |-> "mouse_move",
                                   pos |-> last'.arg[2].pos,
                                   count |-> 0, button |-> "None",
                                   buttons |-> {}]]>>
                ELSE <<>>]_vars

\* a motion to (3, 1) while the second of two windows has the focus was
\* handed to that window's handler
C26_Witness ==
    /\ last.op = "motion"
    /\ Len(windows) = 2
    /\ event_handler.focused = Res("Some", windows[2].id)
    /\ Len(last.eff.mouse) = 1
    /\ last.eff.mouse[1].on = windows[2].id
    /\ last.eff.mouse[1].event.pos = <<3, 1>>

\* C27: an enter sets the focus to its surface and the cursor to its
\* coordinates; a leave clears the focus and leaves the cursor; neither
\* calls a handler, and while there is no focus no motion and no button
\* event calls one.
C27_EnterAndLeaveSetTheFocus ==
    [][/\ last'.op = "enter" =>
             /\ event_handler' = [focused |-> Res("Some", last'.arg[2].surface),
                                  cursor |-> last'.arg[2].pos]
             /\ last'.eff.mouse = <<>>
       /\ last'.op = "leave" =>
             /\ event_handler'.focused = Res("None", 0)
             /\ event_handler'.cursor = event_handler.cursor
             /\ last'.eff.mouse = <<>>
       /\ (/\ last'.op \in {"motion", "button"}
           /\ event_handler.focused.tag = "None") =>
             /\ last'.eff.mouse = <<>>
             /\ last'.eff.pointers = 0
             /\ windows' = windows]_vars

\* a button event arrived after the pointer had left a surface at (3, 1):
\* there is no focus, the cursor is still there, and no handler was called
C27_Witness ==
    /\ last.op = "button"
    /\ event_handler.focused.tag = "None"
    /\ event_handler.cursor = <<3, 1>>
    /\ last.eff.mouse = <<>>

\* C28: a button event while a window has the focus calls one method of
\* that window's handler, mouse_down for Pressed and mouse_up for Released,
\* with the cursor as position, count 1 and the left button, whichever
\* button it was; it changes neither focus nor cursor.
C28_ButtonIsALeftClick ==
    [][(last'.op = "button" /\ FocusOnWindow) =>
          /\ last'.eff.mouse =
                <<[on |-> event_handler.focused.val,
                   event |-> [cb |-> IF last'.arg[2].state = "Pressed"
                                     THEN "mouse_down" ELSE "mouse_up",
                              pos |-> event_handler.cursor,
                              count |-> 1, button |-> "Left",
                              buttons |-> {"Left"}]]>>
          /\ last'.eff.pointers = 1
          /\ event_handler' = event_handler]_vars

\* the right button was released at (1, 2) over a window and its handler
\* got mouse_up with the left button
C28_Witness ==
    /\ last.op = "button"
    /\ last.arg[2].button = 273
    /\ last.arg[2].state = "Released"
    /\ Len(last.eff.mouse) = 1
    /\ last.eff.mouse[1].event.cb = "mouse_up"
    /\ last.eff.mouse[1].event.button = "Left"
    /\ last.eff.mouse[1].event.pos = <<1, 2>>

\* C29: the seat responder has created one pointer object if the pointer
\* capability was ever announced and none otherwise, and one keyboard
\* object if the keyboard capability was ever announced and none
\* otherwise; an event is delivered by the one pointer object only.
C29_OnePointerOneKeyboard ==
    /\ seat.pointers = IF seat.pointer_created THEN 1 ELSE 0
    /\ seat.keyboards = IF seat.keyboard_created THEN 1 ELSE 0
    /\ last.op \in {"enter", "leave", "motion", "button"} => last.arg[1] = 1

\* the positions of `call` among the calls of Application::new
At(call) == {j \in 1..Len(startup.calls) : startup.calls[j] = call}

\* C30: Application::new that got a connection makes one sync_roundtrip,
\* after GlobalManager::new; every global it binds and the seat responder
\* it assigns come after that roundtrip, which succeeded; and a window is
\* only built by an Application that new returned, so after it too.
C30_RoundtripBeforeGlobals ==
    /\ Cardinality(At("sync_roundtrip")) =
          IF startup.started /\ startup.env.connect THEN 1 ELSE 0
    /\ \A r \in At("sync_roundtrip") :
          \E g \in At("GlobalManager::new") : g < r
    /\ \A j \in 1..Len(startup.calls) :
          startup.calls[j] \in Interfaces \cup {"assign_filter"} =>
             /\ startup.env.roundtrip
             /\ \E r \in At("sync_roundtrip") : r < j
    /\ (Len(windows) > 0 \/ event_loop = "ready") =>
          /\ startup.result.tag = "Ok"
          /\ startup.env.roundtrip
          /\ At("sync_roundtrip") # {}

\* Application::new has bound two globals after its roundtrip and failed at
\* the seat
C30_Witness ==
    /\ startup.started
    /\ startup.result.tag = "Err"
    /\ startup.calls =
          Handshake \o <<"wl_shm", "wl_compositor">>


\* ---------------------------------------------------------- the run loop
\* Application::run is on the UI thread while the other threads use the
\* IdleHandle of window 1
InitLoop ==
    /\ InitIdle
    /\ todo["ui"] = <<>>

\* one iteration of the loop of Application::inner_run: EventQueue::dispatch
\* hands the events that arrived to their responders and returns Ok, and the
\* loop starts over; the iteration contains no other statement
Iteration ==
    /\ pc["ui"] = "ready"
    /\ \/ \E dims \in SizeInputs : ToplevelConfigure(1, dims, "none", NoAct)
       \/ ToplevelClose(1)

\* a thread other than the UI thread goes on with its IdleHandle call
Worker(t) ==
    /\ t # "ui"
    /\ \/ ScheduleRedraw(t)
       \/ AddIdleCallback(t)
       \/ AddIdleToken(t)
       \/ IdlePush(t)
       \/ Wake(t)

NextLoop ==
    \/ Iteration
    \/ \E t \in Threads : Worker(t)

\* the compositor keeps sending events, so the loop keeps iterating, and
\* the scheduler lets every thread go on
SpecLoop ==
    /\ InitLoop
    /\ [][NextLoop]_vars
    /\ WF_vars(Iteration)
    /\ \A t \in Threads : WF_vars(Worker(t))

Queued(n) ==
    \E k \in 1..Len(windows[1].idle_queue) :
        windows[1].idle_queue[k].tag = n

\* C31: every item enqueued on a live window's idle queue is eventually
\* removed from it by the event loop of the UI thread.
C31_IdleItemsAreEventuallyHandled ==
    \A n \in 1..MaxIdle : Queued(n) ~> ~Queued(n)


\* ------------------------------------------------------ Application::quit
\* Application::quit: `pub fn quit(&self) {}`, applied to the State that
\* every clone of the Application shares
Application_quit(state) == state

\* Application::quit is called on the Application that new returned
Quit ==
    /\ startup.started
    /\ startup.result.tag = "Ok"
    /\ startup' = [startup EXCEPT
                      !.result.val.state = Application_quit(@)]
    /\ last' = Step("quit", DefaultHandle, <<>>, NoAct, unit, NoEffect)
    /\ UNCHANGED <<window_counter, windows, next_token, threads, event_loop,
                   command, single_use, takers, input>>

NextQuit ==
    \/ NextStartup
    \/ Quit

SpecQuit == InitStartup /\ [][NextQuit]_vars

\* State::quitting of the running application
Quitting ==
    /\ startup.result.tag = "Ok"
    /\ startup.result.val.state.quitting

\* C32: the quitting flag is false until Application::quit is called for
\* the first time and true in every state after a call of quit.
C32_QuittingRecordsQuit ==
    /\ ~Quitting
    /\ [][Quitting' = (Quitting \/ Quit)]_vars


\* ----------------------------------------------------------- command::sys
\* the constants of command::sys, each the Selector::new of its line
sys ==
    [QUIT_APP |-> Selector_new("druid-builtin.quit-app", "()"),
     HIDE_APPLICATION |->
         Selector_new("druid-builtin.menu-hide-application", "()"),
     HIDE_OTHERS |-> Selector_new("druid-builtin.menu-hide-others", "()"),
     NEW_WINDOW |->
         Selector_new("druid-builtin.new-window", "SingleUse<Box<dyn Any>>"),
     CLOSE_WINDOW |-> Selector_new("druid-builtin.close-window", "()"),
     CLOSE_ALL_WINDOWS |->
         Selector_new("druid-builtin.close-all-windows", "()"),
     SHOW_WINDOW |-> Selector_new("druid-builtin.show-window", "()"),
     SHOW_CONTEXT_MENU |->
         Selector_new("druid-builtin.show-context-menu", "Box<dyn Any>"),
     SET_MENU |-> Selector_new("druid-builtin.set-menu", "Box<dyn Any>"),
     SHOW_PREFERENCES |->
         Selector_new("druid-builtin.menu-show-preferences", "()"),
     SHOW_ABOUT |-> Selector_new("druid-builtin.menu-show-about", "()"),
     SHOW_ALL |-> Selector_new("druid-builtin.menu-show-all", "()"),
     NEW_FILE |-> Selector_new("druid-builtin.menu-file-new", "()"),
     SHOW_OPEN_PANEL |->
         Selector_new("druid-builtin.menu-file-open", "FileDialogOptions"),
     OPEN_FILE |-> Selector_new("druid-builtin.open-file-path", "FileInfo"),
     SHOW_SAVE_PANEL |->
         Selector_new("druid-builtin.menu-file-save-as", "FileDialogOptions"),
     SAVE_FILE |->
         Selector_new("druid-builtin.menu-file-save", "Option<FileInfo>"),
     PRINT_SETUP |->
         Selector_new("druid-builtin.menu-file-print-setup", "()"),
     PRINT |-> Selector_new("druid-builtin.menu-file-print", "()"),
     PRINT_PREVIEW |-> Selector_new("druid-builtin.menu-file-print", "()"),
     CUT |-> Selector_new("druid-builtin.menu-cut", "()"),
     COPY |-> Selector_new("druid-builtin.menu-copy", "()"),
     PASTE |-> Selector_new("druid-builtin.menu-paste", "()"),
     UNDO |-> Selector_new("druid-builtin.menu-undo", "()"),
     REDO |-> Selector_new("druid-builtin.menu-redo", "()")]

\* Command::new(sys::a, object), with one object per payload type
SysNew(a) ==
    /\ ~command.made
    /\ command' = [made |-> TRUE, asked |-> FALSE, of |-> a,
                   cmd |-> Command_new(sys[a], 0)]
    /\ UNCHANGED <<window_counter, windows, last, next_token, threads,
                   event_loop, startup, single_use, takers, input>>

\* Command::is(sys::b) on the command that was made
SysAsk(b) ==
    /\ command.made
    /\ ~command.asked
    /\ command' = [made |-> TRUE, asked |-> TRUE, of |-> command.of,
                   cmd |-> command.cmd, with |-> b,
                   is |-> Command_is(command.cmd, sys[b])]
    /\ UNCHANGED <<window_counter, windows, last, next_token, threads,
                   event_loop, startup, single_use, takers, input>>

NextSys ==
    \/ \E a \in DOMAIN sys : SysNew(a)
    \/ \E b \in DOMAIN sys : SysAsk(b)

SpecSys == InitCommand /\ [][NextSys]_vars

\* C33: the built-in selectors have pairwise distinct identifiers: a
\* command made from one of them does not answer is() with true for
\* another of them.
C33_BuiltinSelectorsAreDistinct ==
    (command.asked /\ command.of # command.with) => ~command.is


\* the callbacks other than connect that a step ran
OtherCallbacks(eff) == eff.sizes + eff.prepares + eff.paints + eff.pointers

\* C34: connect is the first callback a window's handler gets: a step
\* that runs size, prepare_paint, paint or a mouse callback of a handler
\* whose connect has never been called runs connect as well (which the
\* first surface configure does before anything else), in whatever order
\* the configure and pointer events arrive after build().
C34_ConnectComesFirst ==
    [][\A i \in 1..Len(windows) :
          (/\ last'.handle = HandleOf(i)
           /\ windows[i].connects = 0
           /\ OtherCallbacks(last'.eff) > 0) =>
             last'.eff.connects > 0]_vars


\* C35: between the steps, when no callback is running, the size last
\* passed to the handler's size callback is the window's stored logical
\* size, the one the next backing surface is allocated with; so it is
\* after the first configure acknowledgment too, whatever came before it.
C35_NotifiedSizeIsTheStoredSize ==
    \A i \in 1..Len(windows) :
        windows[i].notified # <<0, 0>> =>
           windows[i].notified = windows[i].size


\* C36: a build() that fails because no handler was set sends nothing: it
\* creates no surface, shell surface or toplevel, replaces no ping
\* responder, sets no title and commits nothing, and it leaves
\* State::windows as it was.
C36_FailedBuildHasNoEffect ==
    [][(last'.op = "build" /\ last'.res.tag = "Err") =>
          /\ last'.eff.order = <<>>
          /\ windows' = windows]_vars


\* C37: a window has at most one frame callback registered and not yet
\* fired, however many invalidate, invalidate_rect and request_anim_frame
\* calls were made since the last frame completed; so one render follows
\* them.
C37_AtMostOneFramePending ==
    \A i \in 1..Len(windows) : windows[i].frames <= 1


\* the callbacks that the event or call `op` runs itself
Own(op) ==
    CASE op = "surface_configure" -> {"connect", "size", "prepare_paint",
                                      "paint"}
      [] op = "toplevel_configure" -> {"size", "prepare_paint", "paint"}
      [] op \in {"frame_done", "show"} -> {"prepare_paint", "paint"}
      [] op = "pointer" -> {"pointer"}
      [] OTHER -> {}

\* the handler called show, invalidate, invalidate_rect or
\* request_anim_frame on its own window i from inside a callback of `step`
Nested(step, i) ==
    /\ step.handle = HandleOf(i)
    /\ step.act.op \in HandlerOps

\* the step ran each of its own callbacks once at most and no other, and
\* nothing panicked
NotReentered(step) ==
    /\ step.eff.panics = 0
    /\ \A cb \in Callbacks :
          step.eff[CounterOf(cb)] <= IF cb \in Own(step.op) THEN 1 ELSE 0

\* C38: a WindowHandle operation that the handler calls on its window from
\* inside one of its callbacks starts no other callback of that handler
\* and does not panic, and the render that a nested show() attempts
\* returns an error.
C38_HandlerIsNeverReentered ==
    [][\A i \in 1..Len(windows) :
          Nested(last', i) =>
             /\ NotReentered(last')
             /\ last'.act.op = "show" => last'.eff.render_errs > 0]_vars

\* C38 without the error: no nested operation starts a callback or panics
C38_NestedCallsStartNoCallback ==
    [][\A i \in 1..Len(windows) :
          Nested(last', i) => NotReentered(last')]_vars

====
